---------------------------- MODULE Spec2Model ----------------------------
(***************************************************************************)
(* A model of the style and layout core of browser-engine-suburi:          *)
(*   src/src/dom.rs     ElementData, id, classes                           *)
(*   src/src/css.rs     Selector, specificity, parse_selectors' sort       *)
(*   src/src/style.rs   matches, match_rule, matching_rules,               *)
(*                      specified_values                                   *)
(*   src/src/layout.rs  build_layout_tree, layout_tree, the layout pass    *)
(*                                                                         *)
(* Conventions.                                                            *)
(*  - An Option<T> is a sequence of length 0 (None) or 1 (Some(x)), which  *)
(*    is also how the source consumes it (opt.iter().any(..), .count()).   *)
(*  - A String that the code takes apart (the class attribute, a class     *)
(*    name, an id) is a sequence of one-character strings.                 *)
(*  - A HashMap is a function whose DOMAIN is the set of keys present.     *)
(*  - An f32 number of pixels is an integer counting half pixels, so that  *)
(*    `underflow / 2.0` is exact; declared lengths are whole pixels.       *)
(***************************************************************************)
EXTENDS Integers, Sequences, FiniteSets, TLC

VARIABLES
  pc,                \* where the run of the function under study stands
  elem,              \* dom::ElementData handed to the style functions
  selector,          \* css::SimpleSelector handed to matches
  matched,           \* the bool returned by matches
  stylesheet,        \* css::StyleSheet.rules
  values,            \* the PropertyMap returned by specified_values
  style_node,        \* the StyledNode of the box whose width is resolved
  containing_block,  \* the Dimensions handed to calculate_block_width
  dimensions,        \* LayoutBox.dimensions of that box
  root_box,          \* layout_tree::root_box, None until it is built
  stack              \* the calls of layout_block in progress, innermost last

vars == <<pc, elem, selector, matched, stylesheet, values,
          style_node, containing_block, dimensions, root_box, stack>>

\* Value of a variable a specification does not use.
Idle == <<>>

None == <<>>
Some(x) == <<x>>

(***************************************************************************)
(* dom.rs                                                                  *)
(***************************************************************************)

\* HashMap::get
Get(map, key) == IF key \in DOMAIN map THEN Some(map[key]) ELSE None

\* ElementData::id
ElementId(e) == Get(e.attributes, "id")

\* str::split(' '): the pieces between single space characters, empty pieces
\* included; the empty string yields one empty piece.
RECURSIVE SplitFrom(_, _, _)
SplitFrom(s, i, piece) ==
  IF i > Len(s) THEN <<piece>>
  ELSE IF s[i] = " " THEN <<piece>> \o SplitFrom(s, i + 1, <<>>)
  ELSE SplitFrom(s, i + 1, Append(piece, s[i]))

SplitSpace(s) == SplitFrom(s, 1, <<>>)

Range(seq) == {seq[i] : i \in DOMAIN seq}

\* The set of words of s when it is split on whitespace (space or tab): maximal
\* runs of non-whitespace characters, so never an empty word.
RECURSIVE WordsFrom(_, _, _)
WordsFrom(s, i, piece) ==
  IF i > Len(s) THEN (IF piece = <<>> THEN {} ELSE {piece})
  ELSE IF s[i] \in {" ", "\t"}
       THEN (IF piece = <<>> THEN {} ELSE {piece}) \cup WordsFrom(s, i + 1, <<>>)
       ELSE WordsFrom(s, i + 1, Append(piece, s[i]))

SplitWhitespace(s) == WordsFrom(s, 1, <<>>)

\* ElementData::classes
ElementClasses(e) ==
  IF "class" \in DOMAIN e.attributes
  THEN Range(SplitSpace(e.attributes["class"]))
  ELSE {}

(***************************************************************************)
(* style.rs: selector matching                                             *)
(***************************************************************************)

\* matches_simple_selector
matches_simple_selector(e, sel) ==
  IF \E i \in DOMAIN sel.tag_name : e.tag_name # sel.tag_name[i] THEN FALSE
  ELSE IF \E i \in DOMAIN sel.id : ElementId(e) # Some(sel.id[i]) THEN FALSE
  ELSE IF \E i \in DOMAIN sel.class : sel.class[i] \notin ElementClasses(e) THEN FALSE
  ELSE TRUE

\* matches: Selector has the single variant Simple
matches(e, sel) == matches_simple_selector(e, sel)

(***************************************************************************)
(* css.rs: values, specificity, the selector list of a rule                *)
(***************************************************************************)

\* Value::Keyword and Value::Length (the only Unit is Px)
Keyword(s) == [kind |-> "Keyword", s |-> s, f |-> 0]
Length(f) == [kind |-> "Length", s |-> "", f |-> f]

\* A whole number of pixels, in half pixels.
Px(n) == 2 * n

\* Selector::specificity: (ids, classes, tags)
specificity(sel) == <<Len(sel.id), Len(sel.class), Len(sel.tag_name)>>

\* Ord on (usize, usize, usize): lexicographic
SpecificityLess(a, b) ==
  \/ a[1] < b[1]
  \/ a[1] = b[1] /\ a[2] < b[2]
  \/ a[1] = b[1] /\ a[2] = b[2] /\ a[3] < b[3]

\* One step of a stable sort of (specificity, item) pairs: x goes behind every
\* pair that does not come after it in the order asked for.
InsertStable(sorted, x, ascending) ==
  LET Before(p, q) == IF ascending THEN SpecificityLess(p[1], q[1])
                      ELSE SpecificityLess(q[1], p[1])
      later == {i \in DOMAIN sorted : Before(x, sorted[i])}
      at == IF later = {} THEN Len(sorted) + 1
            ELSE CHOOSE i \in later : \A j \in later : i <= j
  IN SubSeq(sorted, 1, at - 1) \o <<x>> \o SubSeq(sorted, at, Len(sorted))

\* slice::sort_by on (specificity, item) pairs, comparing the specificities:
\* a stable sort.
RECURSIVE SortBySpecificity(_, _)
SortBySpecificity(pairs, ascending) ==
  IF pairs = <<>> THEN <<>>
  ELSE InsertStable(SortBySpecificity(SubSeq(pairs, 1, Len(pairs) - 1), ascending),
                    pairs[Len(pairs)], ascending)

\* Parser::parse_selectors, its last step:
\*   selectors.sort_by(|a, b| b.specificity().cmp(&a.specificity()))
\* most specific selector first.
SortSelectors(sels) ==
  LET sorted == SortBySpecificity([i \in DOMAIN sels |-> <<specificity(sels[i]), sels[i]>>],
                                  FALSE)
  IN [i \in DOMAIN sorted |-> sorted[i][2]]

(***************************************************************************)
(* style.rs: the cascade                                                   *)
(***************************************************************************)

\* match_rule: the first selector of the rule that matches, with the rule
RECURSIVE FindSelector(_, _, _)
FindSelector(e, sels, i) ==
  IF i > Len(sels) THEN None
  ELSE IF matches(e, sels[i]) THEN Some(sels[i])
  ELSE FindSelector(e, sels, i + 1)

match_rule(e, rule) ==
  LET found == FindSelector(e, rule.selectors, 1)
  IN IF found = None THEN None ELSE Some(<<specificity(found[1]), rule>>)

\* matching_rules: filter_map over the rules, in stylesheet order
RECURSIVE matching_rules(_, _)
matching_rules(e, rules) ==
  IF rules = <<>> THEN <<>>
  ELSE match_rule(e, rules[1]) \o matching_rules(e, SubSeq(rules, 2, Len(rules)))

\* SortMatched with the comparison the other way round, as parse_selectors has
\* it: the most specific rule first.
SortMatchedDescending(rs) == SortBySpecificity(rs, FALSE)

\* rules.sort_by(|&(a, _), &(b, _)| a.cmp(&b)): stable, ascending specificity
SortMatched(rs) == SortBySpecificity(rs, TRUE)

\* HashMap::insert
Insert(map, key, value) ==
  [k \in DOMAIN map \cup {key} |-> IF k = key THEN value ELSE map[k]]

\* for declaration in &rule.declarations { values.insert(name, value) }
RECURSIVE ApplyDeclarations(_, _)
ApplyDeclarations(map, decls) ==
  IF decls = <<>> THEN map
  ELSE ApplyDeclarations(Insert(map, decls[1].name, decls[1].value),
                         SubSeq(decls, 2, Len(decls)))

\* for (_, rule) in rules { ... }
RECURSIVE ApplyRules(_, _)
ApplyRules(map, rs) ==
  IF rs = <<>> THEN map
  ELSE ApplyRules(ApplyDeclarations(map, rs[1][2].declarations),
                  SubSeq(rs, 2, Len(rs)))

\* specified_values
specified_values(e, rules) ==
  ApplyRules(<<>>, SortMatched(matching_rules(e, rules)))

(***************************************************************************)
(* Specification SpecMatch: matches on one element and one simple selector *)
(***************************************************************************)

\* Longest class attribute, and most classes in one selector.
MaxClassLen == 3
MaxSelectorClasses == 2

\* The characters of a class attribute: two letters, the space and the tab.
ClassChars == {"a", "b", " ", "\t"}

\* Class names of a selector.
ClassNames == {<<"a">>, <<"b">>, <<"a", "b">>}

SeqsUpTo(S, n) == UNION {[1..k -> S] : k \in 0..n}

\* dom::elem: elements with and without the id and class attributes
Elements ==
  {[tag_name |-> t, attributes |-> a] :
     t \in {"div", "p"},
     a \in {<<>>} \cup {[k \in {"id"} |-> <<"x">>]}
          \cup {[k \in {"class"} |-> c] : c \in SeqsUpTo(ClassChars, MaxClassLen)}
          \cup {[k \in {"id", "class"} |-> IF k = "id" THEN <<"x">> ELSE c] :
                  c \in SeqsUpTo(ClassChars, MaxClassLen)}}

\* Parser::parse_simple_selector: what it can return
SimpleSelectors ==
  [tag_name : {None, Some("div")},
   id : {None, Some(<<"x">>), Some(<<"y">>)},
   class : SeqsUpTo(ClassNames, MaxSelectorClasses)]

InitMatch ==
  /\ pc = "start"
  /\ elem \in Elements
  /\ selector \in SimpleSelectors
  /\ matched = Idle
  /\ stylesheet = Idle /\ values = Idle
  /\ style_node = Idle /\ containing_block = Idle /\ dimensions = Idle
  /\ root_box = Idle /\ stack = Idle

\* matches(elem, &Selector::Simple(selector))
Matches ==
  /\ pc = "start"
  /\ matched' = matches(elem, selector)
  /\ pc' = "matched"
  /\ UNCHANGED <<elem, selector, stylesheet, values,
                 style_node, containing_block, dimensions, root_box, stack>>

NextMatch == Matches

SpecMatch == InitMatch /\ [][NextMatch]_vars

\* The classes of the element as the set of whitespace-separated words of its
\* class attribute.
WhitespaceClasses(e) ==
  IF "class" \in DOMAIN e.attributes
  THEN SplitWhitespace(e.attributes["class"])
  ELSE {}

\* C6: matches is true if and only if the selector's tag name (if any) is the
\* element's, the selector's id (if any) is the element's id attribute, and
\* every class of the selector is among the words obtained by splitting the
\* element's class attribute on whitespace.
MatchesIffWhitespaceSplit ==
  pc = "matched" =>
    (matched <=>
       /\ (selector.tag_name = None \/ selector.tag_name = Some(elem.tag_name))
       /\ (selector.id = None \/ selector.id = ElementId(elem))
       /\ \A i \in DOMAIN selector.class :
             selector.class[i] \in WhitespaceClasses(elem))

(***************************************************************************)
(* Specification SpecCascade: specified_values on one element and one      *)
(* stylesheet                                                              *)
(***************************************************************************)

\* Most rules in a stylesheet.
MaxRules == 3

Universal == [tag_name |-> None, id |-> None, class |-> <<>>]
TagDiv == [tag_name |-> Some("div"), id |-> None, class |-> <<>>]
ClassA == [tag_name |-> None, id |-> None, class |-> <<<<"a">>>>]
IdX == [tag_name |-> None, id |-> Some(<<"x">>), class |-> <<>>]

\* Selector lists as written in the stylesheet source, before parse_selectors
\* sorts them.
WrittenSelectorLists ==
  {<<Universal>>, <<ClassA>>, <<TagDiv, IdX>>, <<Universal, ClassA>>}

\* The property names of the declarations of one rule, in order.
DeclaredNames == {<<"width">>, <<"color", "width">>, <<"width", "width">>}

\* Rule i of the stylesheet: every declaration of the stylesheet has a value of
\* its own, so a value of the result names the declaration it came from.
RuleAt(i, sels, names) ==
  [selectors |-> SortSelectors(sels),
   declarations |-> [k \in DOMAIN names |->
                       [name |-> names[k], value |-> Length(Px(10 * i + k))]]]

\* css::parse: the stylesheet of n rules written with the selector lists sl
\* and the declared names dn
StyleSheet(n, sl, dn) == [i \in 1..n |-> RuleAt(i, sl[i], dn[i])]

\* A div with and without id="x" class="a"
CascadeElements ==
  {[tag_name |-> "div", attributes |-> <<>>],
   [tag_name |-> "div",
    attributes |-> [k \in {"id", "class"} |-> IF k = "id" THEN <<"x">> ELSE <<"a">>]]}

InitCascade ==
  /\ pc = "start"
  /\ elem \in CascadeElements
  /\ \E n \in 0..MaxRules :
       \E sl \in [1..n -> WrittenSelectorLists], dn \in [1..n -> DeclaredNames] :
         stylesheet = StyleSheet(n, sl, dn)
  /\ values = Idle
  /\ selector = Idle /\ matched = Idle
  /\ style_node = Idle /\ containing_block = Idle /\ dimensions = Idle
  /\ root_box = Idle /\ stack = Idle

\* specified_values(elem, stylesheet)
SpecifiedValues ==
  /\ pc = "start"
  /\ values' = specified_values(elem, stylesheet)
  /\ pc' = "cascaded"
  /\ UNCHANGED <<elem, selector, matched, stylesheet,
                 style_node, containing_block, dimensions, root_box, stack>>

NextCascade == SpecifiedValues

SpecCascade == InitCascade /\ [][NextCascade]_vars

\* Rule i has a selector matching the element.
RuleMatches(i) ==
  \E j \in DOMAIN stylesheet[i].selectors : matches(elem, stylesheet[i].selectors[j])

\* The specificity of rule i: that of its first matching selector.
RuleSpecificity(i) ==
  LET sels == stylesheet[i].selectors
      first == CHOOSE j \in DOMAIN sels :
                 /\ matches(elem, sels[j])
                 /\ \A k \in 1..(j - 1) : ~matches(elem, sels[k])
  IN specificity(sels[first])

\* Rule i declares property P; the value it declares (its last declaration).
RuleDeclares(i, P) ==
  \E k \in DOMAIN stylesheet[i].declarations : stylesheet[i].declarations[k].name = P

RuleValue(i, P) ==
  LET ds == stylesheet[i].declarations
      last == CHOOSE k \in DOMAIN ds :
                /\ ds[k].name = P
                /\ \A m \in DOMAIN ds : ds[m].name = P => m <= k
  IN ds[last].value

\* The matching rules that declare P.
Declaring(P) == {i \in DOMAIN stylesheet : RuleMatches(i) /\ RuleDeclares(i, P)}

\* Rule i beats rule j: more specific, or as specific and later.
Beats(i, j) ==
  \/ SpecificityLess(RuleSpecificity(j), RuleSpecificity(i))
  \/ RuleSpecificity(j) = RuleSpecificity(i) /\ j < i

\* C1: specified_values maps each property declared by at least one matching
\* rule, and no other, to the value declared by the matching rule of highest
\* specificity among those declaring it, the later rule winning among rules of
\* equal specificity.
CascadeWinner ==
  pc = "cascaded" =>
    /\ DOMAIN values = {P \in {"width", "color"} : Declaring(P) # {}}
    /\ \A P \in DOMAIN values :
         \E i \in Declaring(P) :
           /\ \A j \in Declaring(P) \ {i} : Beats(i, j)
           /\ values[P] = RuleValue(i, P)

\* Witness of C1: three matching rules declare width, the winner is the first
\* of them and the other two tie.
CascadeWinnerWitness ==
  /\ pc = "cascaded"
  /\ Cardinality(Declaring("width")) = 3
  /\ values["width"] = RuleValue(1, "width")
  /\ RuleSpecificity(2) = RuleSpecificity(3)
  /\ Declaring("color") = {2}

(***************************************************************************)
(* layout.rs: Dimensions, and the StyledNode and Value methods it calls    *)
(***************************************************************************)

\* Rect::default, EdgeSizes::default, Dimensions::default
ZeroRect == [x |-> 0, y |-> 0, width |-> 0, height |-> 0]
ZeroEdges == [left |-> 0, right |-> 0, top |-> 0, bottom |-> 0]
DefaultDimensions ==
  [content |-> ZeroRect, padding |-> ZeroEdges, border |-> ZeroEdges, margin |-> ZeroEdges]

\* StyledNode::value: the specified value of a property, if any
value(style, name) == Get(style.specified_values, name)

\* StyledNode::lookup: the property, else the fallback property, else the default
lookup(style, name, fallback_name, default) ==
  IF value(style, name) # None THEN value(style, name)[1]
  ELSE IF value(style, fallback_name) # None THEN value(style, fallback_name)[1]
  ELSE default

\* Value::to_px: the number of a length, 0 for anything else
to_px(v) == IF v.kind = "Length" THEN v.f ELSE 0

\* fn sum
RECURSIVE sum(_)
sum(seq) == IF seq = <<>> THEN 0 ELSE sum(SubSeq(seq, 1, Len(seq) - 1)) + seq[Len(seq)]

(***************************************************************************)
(* layout.rs: LayoutBox::calculate_block_width                             *)
(***************************************************************************)

\* Keyword("auto".to_string())
auto == Keyword("auto")

\* x / 2.0, exact on half pixels: every x it is applied to is a whole number
\* of pixels.
Half(x) == x \div 2

\* CollapseAuto without the collapse: an auto margin stays auto however wide
\* the box is.
CollapseAutoNever(width, total, containing_width, margin) == margin

\* if width != auto && total > containing_block.content.width {
\*   if margin == auto { margin = Length(0.0, Px) } }
CollapseAuto(width, total, containing_width, margin) ==
  IF width # auto /\ total > containing_width /\ margin = auto
  THEN Length(0)
  ELSE margin

\* ResolveUnderflow, its first arm forgetting the declared margin-right.
ResolveUnderflowDropsMargin(width, margin_left, margin_right, underflow) ==
  CASE width # auto /\ margin_left # auto /\ margin_right # auto ->
         [width |-> width, margin_left |-> margin_left,
          margin_right |-> Length(underflow)]
    [] width # auto /\ margin_left # auto /\ margin_right = auto ->
         [width |-> width, margin_left |-> margin_left,
          margin_right |-> Length(underflow)]
    [] width # auto /\ margin_left = auto /\ margin_right # auto ->
         [width |-> width, margin_left |-> Length(underflow),
          margin_right |-> margin_right]
    [] width = auto ->
         LET ml == IF margin_left = auto THEN Length(0) ELSE margin_left
             mr == IF margin_right = auto THEN Length(0) ELSE margin_right
         IN IF underflow >= 0
            THEN [width |-> Length(underflow), margin_left |-> ml, margin_right |-> mr]
            ELSE [width |-> Length(0), margin_left |-> ml,
                  margin_right |-> Length(to_px(mr) + underflow)]
    [] width # auto /\ margin_left = auto /\ margin_right = auto ->
         [width |-> width, margin_left |-> Length(Half(underflow)),
          margin_right |-> Length(Half(underflow))]

\* ResolveUnderflow, an auto width taking a negative underflow as it is.
ResolveUnderflowNoClamp(width, margin_left, margin_right, underflow) ==
  CASE width # auto /\ margin_left # auto /\ margin_right # auto ->
         [width |-> width, margin_left |-> margin_left,
          margin_right |-> Length(to_px(margin_right) + underflow)]
    [] width # auto /\ margin_left # auto /\ margin_right = auto ->
         [width |-> width, margin_left |-> margin_left,
          margin_right |-> Length(underflow)]
    [] width # auto /\ margin_left = auto /\ margin_right # auto ->
         [width |-> width, margin_left |-> Length(underflow),
          margin_right |-> margin_right]
    [] width = auto ->
         LET ml == IF margin_left = auto THEN Length(0) ELSE margin_left
             mr == IF margin_right = auto THEN Length(0) ELSE margin_right
         IN [width |-> Length(underflow), margin_left |-> ml, margin_right |-> mr]
    [] width # auto /\ margin_left = auto /\ margin_right = auto ->
         [width |-> width, margin_left |-> Length(Half(underflow)),
          margin_right |-> Length(Half(underflow))]

\* ResolveUnderflow, its two one-auto-margin arms exchanged.
ResolveUnderflowWrongSide(width, margin_left, margin_right, underflow) ==
  CASE width # auto /\ margin_left # auto /\ margin_right # auto ->
         [width |-> width, margin_left |-> margin_left,
          margin_right |-> Length(to_px(margin_right) + underflow)]
    [] width # auto /\ margin_left # auto /\ margin_right = auto ->
         [width |-> width, margin_left |-> Length(underflow),
          margin_right |-> margin_right]
    [] width # auto /\ margin_left = auto /\ margin_right # auto ->
         [width |-> width, margin_left |-> margin_left,
          margin_right |-> Length(underflow)]
    [] width = auto ->
         LET ml == IF margin_left = auto THEN Length(0) ELSE margin_left
             mr == IF margin_right = auto THEN Length(0) ELSE margin_right
         IN IF underflow >= 0
            THEN [width |-> Length(underflow), margin_left |-> ml, margin_right |-> mr]
            ELSE [width |-> Length(0), margin_left |-> ml,
                  margin_right |-> Length(to_px(mr) + underflow)]
    [] width # auto /\ margin_left = auto /\ margin_right = auto ->
         [width |-> width, margin_left |-> Length(Half(underflow)),
          margin_right |-> Length(Half(underflow))]

\* match (width == auto, margin_left == auto, margin_right == auto) { ... }:
\* the width and the two margins after the match.
ResolveUnderflow(width, margin_left, margin_right, underflow) ==
  CASE width # auto /\ margin_left # auto /\ margin_right # auto ->
         [width |-> width, margin_left |-> margin_left,
          margin_right |-> Length(to_px(margin_right) + underflow)]
    [] width # auto /\ margin_left # auto /\ margin_right = auto ->
         [width |-> width, margin_left |-> margin_left,
          margin_right |-> Length(underflow)]
    [] width # auto /\ margin_left = auto /\ margin_right # auto ->
         [width |-> width, margin_left |-> Length(underflow),
          margin_right |-> margin_right]
    [] width = auto ->
         LET ml == IF margin_left = auto THEN Length(0) ELSE margin_left
             mr == IF margin_right = auto THEN Length(0) ELSE margin_right
         IN IF underflow >= 0
            THEN [width |-> Length(underflow), margin_left |-> ml, margin_right |-> mr]
            ELSE [width |-> Length(0), margin_left |-> ml,
                  margin_right |-> Length(to_px(mr) + underflow)]
    [] width # auto /\ margin_left = auto /\ margin_right = auto ->
         [width |-> width, margin_left |-> Length(Half(underflow)),
          margin_right |-> Length(Half(underflow))]

\* LayoutBox::calculate_block_width: the box's dimensions d after the call
calculate_block_width(style, containing, d) ==
  LET zero == Length(0)
      width == IF value(style, "width") = None THEN auto ELSE value(style, "width")[1]
      margin_left == lookup(style, "margin-left", "margin", zero)
      margin_right == lookup(style, "margin-right", "margin", zero)
      border_left == lookup(style, "border-left-width", "border-width", zero)
      border_right == lookup(style, "border-right-width", "border-width", zero)
      padding_left == lookup(style, "padding-left", "padding", zero)
      padding_right == lookup(style, "padding-right", "padding", zero)
      total == sum(<<to_px(margin_left), to_px(margin_right), to_px(border_left),
                     to_px(border_right), to_px(padding_left), to_px(padding_right),
                     to_px(width)>>)
      ml == CollapseAuto(width, total, containing.content.width, margin_left)
      mr == CollapseAuto(width, total, containing.content.width, margin_right)
      underflow == containing.content.width - total
      r == ResolveUnderflow(width, ml, mr, underflow)
  IN [d EXCEPT !.content.width = to_px(r.width),
               !.padding.left = to_px(padding_left),
               !.padding.right = to_px(padding_right),
               !.border.left = to_px(border_left),
               !.border.right = to_px(border_right),
               !.margin.left = to_px(r.margin_left),
               !.margin.right = to_px(r.margin_right)]

(***************************************************************************)
(* Specification SpecWidth: calculate_block_width on one Block box         *)
(***************************************************************************)

\* The containing widths are the multiples of ContainingStep pixels up to
\* MaxContaining of them.
MaxContaining == 2
ContainingStep == 400

\* The ten properties calculate_block_width reads, and the length in pixels a
\* stylesheet declares for each: powers of two, so that a sum of them tells
\* which of them are in it.
WidthProperties ==
  <<"margin-left", "margin-right", "margin",
    "border-left-width", "border-right-width", "border-width",
    "padding-left", "padding-right", "padding", "width">>

DeclaredPx(i) == Px(2 ^ (i - 1))

\* choice[i] says whether property i is absent (0), declared auto (1) or
\* declared as a length (2).
StyleOf(choice) ==
  [children |-> <<>>,
   specified_values |->
     [name \in {WidthProperties[i] : i \in {j \in DOMAIN WidthProperties : choice[j] # 0}} |->
        LET i == CHOOSE j \in DOMAIN WidthProperties : WidthProperties[j] = name
        IN IF choice[i] = 1 THEN auto ELSE Length(DeclaredPx(i))]]

ContainingBlock(w) == [DefaultDimensions EXCEPT !.content.width = w]

InitWidth ==
  /\ pc = "start"
  /\ \E choice \in [DOMAIN WidthProperties -> {0, 1, 2}] : style_node = StyleOf(choice)
  /\ \E k \in 0..MaxContaining : containing_block = ContainingBlock(Px(k * ContainingStep))
  /\ dimensions = DefaultDimensions
  /\ elem = Idle /\ selector = Idle /\ matched = Idle
  /\ stylesheet = Idle /\ values = Idle
  /\ root_box = Idle /\ stack = Idle

\* self.calculate_block_width(containing_block)
CalculateBlockWidth ==
  /\ pc = "start"
  /\ dimensions' = calculate_block_width(style_node, containing_block, dimensions)
  /\ pc' = "width"
  /\ UNCHANGED <<elem, selector, matched, stylesheet, values,
                 style_node, containing_block, root_box, stack>>

NextWidth == CalculateBlockWidth

SpecWidth == InitWidth /\ [][NextWidth]_vars

\* What the box's style declares, as the claims speak of it: the width is auto
\* when declared so or not declared; a margin is the longhand, else the
\* shorthand, else 0px; auto counts as 0 pixels.
WidthIsAuto == value(style_node, "width") = None \/ value(style_node, "width") = Some(auto)
DeclaredWidth == IF WidthIsAuto THEN 0 ELSE to_px(value(style_node, "width")[1])
DeclaredMarginLeft == lookup(style_node, "margin-left", "margin", Length(0))
DeclaredMarginRight == lookup(style_node, "margin-right", "margin", Length(0))
DeclaredTotal ==
  DeclaredWidth + to_px(DeclaredMarginLeft) + to_px(DeclaredMarginRight)
  + to_px(lookup(style_node, "border-left-width", "border-width", Length(0)))
  + to_px(lookup(style_node, "border-right-width", "border-width", Length(0)))
  + to_px(lookup(style_node, "padding-left", "padding", Length(0)))
  + to_px(lookup(style_node, "padding-right", "padding", Length(0)))
ContainingWidth == containing_block.content.width
Underflow == ContainingWidth - DeclaredTotal

\* C2: after calculate_block_width on a box whose declared width is not auto,
\* the horizontal margins, borders, paddings and the content width add up to
\* the containing block's content width.
WidthBoxInvariant ==
  pc = "width" /\ ~WidthIsAuto =>
    dimensions.margin.left + dimensions.border.left + dimensions.padding.left
      + dimensions.content.width
      + dimensions.padding.right + dimensions.border.right + dimensions.margin.right
    = ContainingWidth

\* Witness of C2: a box of declared width, with borders and paddings and an
\* auto left margin, too wide for its containing block.
WidthBoxInvariantWitness ==
  /\ pc = "width" /\ ~WidthIsAuto
  /\ DeclaredMarginLeft = auto
  /\ dimensions.border.left > 0 /\ dimensions.padding.right > 0
  /\ ContainingWidth > 0 /\ dimensions.margin.right < 0

\* C8: for a box of auto width every auto margin counts as 0; if the underflow
\* is not negative the content width is the underflow and the margins keep
\* their declared values; otherwise the content width is 0 and margin.right
\* is the declared margin-right plus the underflow. A box declaring nothing
\* gets the containing width and no horizontal margins.
AutoWidthResolution ==
  pc = "width" /\ WidthIsAuto =>
    /\ dimensions.margin.left = to_px(DeclaredMarginLeft)
    /\ IF Underflow >= 0
       THEN /\ dimensions.content.width = Underflow
            /\ dimensions.margin.right = to_px(DeclaredMarginRight)
       ELSE /\ dimensions.content.width = 0
            /\ dimensions.margin.right = to_px(DeclaredMarginRight) + Underflow
    /\ (style_node.specified_values = <<>> =>
          /\ dimensions.content.width = ContainingWidth
          /\ dimensions.margin.left = 0 /\ dimensions.margin.right = 0)

\* Witness of C8: an auto width with a declared left margin and an auto right
\* margin, in a containing block too narrow for the rest.
AutoWidthResolutionWitness ==
  /\ pc = "width" /\ WidthIsAuto
  /\ DeclaredMarginRight = auto /\ to_px(DeclaredMarginLeft) > 0
  /\ ContainingWidth > 0 /\ Underflow < 0
  /\ dimensions.content.width = 0 /\ dimensions.margin.right = Underflow

\* C9: for a box of declared width that fits its containing block, the one
\* auto margin takes the whole underflow and the other keeps its declared
\* value; two auto margins take half the underflow each; the content width is
\* the declared width.
AutoMarginResolution ==
  pc = "width" /\ ~WidthIsAuto /\ DeclaredTotal <= ContainingWidth =>
    /\ dimensions.content.width = DeclaredWidth
    /\ (DeclaredMarginLeft = auto /\ DeclaredMarginRight # auto =>
          /\ dimensions.margin.left = Underflow
          /\ dimensions.margin.right = to_px(DeclaredMarginRight))
    /\ (DeclaredMarginLeft # auto /\ DeclaredMarginRight = auto =>
          /\ dimensions.margin.right = Underflow
          /\ dimensions.margin.left = to_px(DeclaredMarginLeft))
    /\ (DeclaredMarginLeft = auto /\ DeclaredMarginRight = auto =>
          /\ dimensions.margin.left = dimensions.margin.right
          /\ 2 * dimensions.margin.left = Underflow)

\* Witness of C9: margin-left auto against a declared margin-right, with room
\* to spare.
AutoMarginResolutionWitness ==
  /\ pc = "width" /\ ~WidthIsAuto
  /\ DeclaredMarginLeft = auto /\ to_px(DeclaredMarginRight) > 0
  /\ Underflow > 0 /\ dimensions.margin.left = Underflow

\* C10: for a box of declared width too wide for its containing block, auto
\* margins count as 0, margin.left and the content width keep their declared
\* values, and margin.right is the declared margin-right plus the (negative)
\* underflow.
OverconstrainedResolution ==
  pc = "width" /\ ~WidthIsAuto /\ DeclaredTotal > ContainingWidth =>
    /\ dimensions.content.width = DeclaredWidth
    /\ dimensions.margin.left = to_px(DeclaredMarginLeft)
    /\ dimensions.margin.right = to_px(DeclaredMarginRight) + Underflow

\* Witness of C10: both margins auto on a box too wide for its containing
\* block.
OverconstrainedResolutionWitness ==
  /\ pc = "width" /\ ~WidthIsAuto
  /\ DeclaredMarginLeft = auto /\ DeclaredMarginRight = auto
  /\ ContainingWidth > 0 /\ Underflow < 0
  /\ dimensions.margin.left = 0 /\ dimensions.margin.right = Underflow

(***************************************************************************)
(* layout.rs: build_layout_tree                                            *)
(*                                                                         *)
(* A StyledNode is [specified_values, children]; a reference to one is its *)
(* path from the root of the styled tree (the indices of the children      *)
(* taken). A LayoutBox is [box_type, node, dimensions, children], node     *)
(* being Some(path) for BlockNode(&node) and InlineNode(&node) and None    *)
(* for AnonymousBlock.                                                     *)
(***************************************************************************)

\* StyledNode::display: the display keyword, inline unless block or none
display(style) ==
  IF value(style, "display") = Some(Keyword("block")) THEN "Block"
  ELSE IF value(style, "display") = Some(Keyword("none")) THEN "DisplayNone"
  ELSE "Inline"

\* The names the use declarations of layout.rs (lines 1 to 6) bring into its
\* scope. `use style::{StyledNode, Display}` brings the enum, not its variants.
NamesInScope ==
  {"AnonymousBlock", "BlockNode", "InlineNode", "Px", "Value", "Keyword", "Length",
   "Default", "StyledNode", "Display"}

\* A bare identifier as the pattern of a match arm (`Block =>`, `Inline =>`,
\* `DisplayNone =>`): it stands for the variant of that name only when such a
\* name is in scope; otherwise it is a fresh binding, which matches any value.
PatternMatches(name, scrutinee) ==
  IF name \in NamesInScope THEN scrutinee = name ELSE TRUE

\* LayoutBox::new
NewBox(box_type, node) ==
  [box_type |-> box_type, node |-> node,
   dimensions |-> DefaultDimensions, children |-> <<>>]

\* What build_layout_tree yields when it panics instead of returning.
Panicked == NewBox("panic", None)

\* LayoutBox::get_inline_container: the box after the call, its inline
\* container being the box itself or else its last child
get_inline_container(self) ==
  IF self.box_type \in {"InlineNode", "AnonymousBlock"} THEN self
  ELSE IF self.children # <<>>
          /\ self.children[Len(self.children)].box_type = "AnonymousBlock"
       THEN self
       ELSE [self EXCEPT !.children = Append(@, NewBox("AnonymousBlock", None))]

\* root.get_inline_container().children.push(child)
PushInline(root, child) ==
  LET self == get_inline_container(root)
  IN IF self.box_type \in {"InlineNode", "AnonymousBlock"}
     THEN [self EXCEPT !.children = Append(@, child)]
     ELSE [self EXCEPT !.children[Len(self.children)].children = Append(@, child)]

\* build_layout_tree(style_node), style_node being the node at path; and its
\* loop over style_node.children from child k on
RECURSIVE build_layout_tree(_, _), BuildChildren(_, _, _, _)
build_layout_tree(node, path) ==
  LET root == IF PatternMatches("Block", display(node))
                THEN NewBox("BlockNode", Some(path))
              ELSE IF PatternMatches("Inline", display(node))
                THEN NewBox("InlineNode", Some(path))
              ELSE Panicked
  IN IF root = Panicked THEN Panicked ELSE BuildChildren(root, node, path, 1)

BuildChildren(root, node, path, k) ==
  IF k > Len(node.children) THEN root
  ELSE LET child == node.children[k]
           built == build_layout_tree(child, Append(path, k))
       IN IF PatternMatches("Block", display(child))
          THEN IF built = Panicked THEN Panicked
               ELSE BuildChildren([root EXCEPT !.children = Append(@, built)],
                                  node, path, k + 1)
          ELSE IF PatternMatches("Inline", display(child))
          THEN IF built = Panicked THEN Panicked
               ELSE BuildChildren(PushInline(root, built), node, path, k + 1)
          ELSE BuildChildren(root, node, path, k + 1)

(***************************************************************************)
(* layout.rs: the boxes of Dimensions and the steps of layout_block        *)
(***************************************************************************)

\* Rect::expanded_by
expanded_by(rect, edge) ==
  [x |-> rect.x - edge.left,
   y |-> rect.y - edge.top,
   width |-> rect.width + edge.left + edge.right,
   height |-> rect.height + edge.top + edge.bottom]

\* Dimensions::padding_box, border_box, margin_box
padding_box(d) == expanded_by(d.content, d.padding)
border_box(d) == expanded_by(padding_box(d), d.border)
margin_box(d) == expanded_by(border_box(d), d.margin)

\* calculate_block_position leaving out the height the containing block has
\* accumulated, so that every child starts at the top of its parent.
calculate_block_position_unstacked(style, containing, d) ==
  LET zero == Length(0)
      d1 == [d EXCEPT
               !.margin.top = to_px(lookup(style, "margin-top", "margin", zero)),
               !.margin.bottom = to_px(lookup(style, "margin-bottom", "margin", zero)),
               !.border.top = to_px(lookup(style, "border-top-width", "border-width", zero)),
               !.border.bottom =
                  to_px(lookup(style, "border-bottom-width", "border-width", zero)),
               !.padding.top = to_px(lookup(style, "padding-top", "padding", zero)),
               !.padding.bottom = to_px(lookup(style, "padding-bottom", "padding", zero))]
  IN [d1 EXCEPT
        !.content.x = containing.content.x + d1.margin.left + d1.border.left
                      + d1.padding.left,
        !.content.y = containing.content.y
                      + d1.margin.top + d1.border.top + d1.padding.top]

\* LayoutBox::calculate_block_position: the box's dimensions d after the call
calculate_block_position(style, containing, d) ==
  LET zero == Length(0)
      d1 == [d EXCEPT
               !.margin.top = to_px(lookup(style, "margin-top", "margin", zero)),
               !.margin.bottom = to_px(lookup(style, "margin-bottom", "margin", zero)),
               !.border.top = to_px(lookup(style, "border-top-width", "border-width", zero)),
               !.border.bottom =
                  to_px(lookup(style, "border-bottom-width", "border-width", zero)),
               !.padding.top = to_px(lookup(style, "padding-top", "padding", zero)),
               !.padding.bottom = to_px(lookup(style, "padding-bottom", "padding", zero))]
  IN [d1 EXCEPT
        !.content.x = containing.content.x + d1.margin.left + d1.border.left
                      + d1.padding.left,
        !.content.y = containing.content.height + containing.content.y
                      + d1.margin.top + d1.border.top + d1.padding.top]

\* calculate_block_height adding the declared height to the children's instead
\* of putting it in its place.
calculate_block_height_adds(style, d) ==
  IF value(style, "height") # None /\ value(style, "height")[1].kind = "Length"
  THEN [d EXCEPT !.content.height = @ + value(style, "height")[1].f]
  ELSE d

\* LayoutBox::calculate_block_height: the box's dimensions d after the call
calculate_block_height(style, d) ==
  IF value(style, "height") # None /\ value(style, "height")[1].kind = "Length"
  THEN [d EXCEPT !.content.height = value(style, "height")[1].f]
  ELSE d

\* layout_block_children, the statement after child.layout(*d):
\*   d.content.height = d.content.height + child.dimensions.margin_box().height
AddChildHeight(d, child) ==
  [d EXCEPT !.content.height = @ + margin_box(child.dimensions).height]

\* The styled node a path refers to, and the box at a path of a layout tree.
RECURSIVE NodeAt(_, _)
NodeAt(node, path) ==
  IF path = <<>> THEN node ELSE NodeAt(node.children[Head(path)], Tail(path))

RECURSIVE BoxAt(_, _)
BoxAt(box, path) ==
  IF path = <<>> THEN box ELSE BoxAt(box.children[Head(path)], Tail(path))

\* The layout tree with the dimensions of the box at path set to d.
RECURSIVE WithDimensions(_, _, _)
WithDimensions(box, path, d) ==
  IF path = <<>> THEN [box EXCEPT !.dimensions = d]
  ELSE [box EXCEPT !.children[Head(path)] = WithDimensions(@, Tail(path), d)]

\* LayoutBox::get_style_node (an AnonymousBlock has none: the call panics)
get_style_node(box) == NodeAt(style_node, box.node[1])

(***************************************************************************)
(* Styled trees: what style::style_tree hands to layout_tree               *)
(***************************************************************************)

\* The nodes of a styled tree are numbered in document order (a node before
\* its children, a child before its later siblings); parent[i] is the number
\* of the parent of node i, 0 for the root.
TreeShapes(n) ==
  {parent \in [1..n -> 0..(n - 1)] :
     /\ parent[1] = 0
     /\ \A i \in 2..n : parent[i] \in 1..(i - 1)
     /\ \A i \in 2..n : \A j \in (i + 1)..n : parent[j] < i => parent[i] >= parent[j]}

\* The children of node i, in document order.
ChildrenOf(parent, i) ==
  LET kids == {j \in DOMAIN parent : parent[j] = i}
  IN [k \in 1..Cardinality(kids) |->
        CHOOSE j \in kids : Cardinality({m \in kids : m < j}) = k - 1]

\* StyledNode { specified_values, children } of node i
RECURSIVE StyledTree(_, _, _)
StyledTree(parent, styles, i) ==
  LET kids == ChildrenOf(parent, i)
  IN [specified_values |-> styles[i],
      children |-> [k \in DOMAIN kids |-> StyledTree(parent, styles, kids[k])]]

\* main: the viewport, 800 by 600 pixels
ViewportWidth == 800
ViewportHeight == 600

Viewport(height) ==
  [DefaultDimensions EXCEPT !.content.width = Px(ViewportWidth), !.content.height = height]

(***************************************************************************)
(* layout_tree, its first two statements: the containing height is set to  *)
(* 0 and the layout tree is built                                          *)
(***************************************************************************)

\* containing_block.content.height = 0.0;
\* let mut root_box = build_layout_tree(node);
BuildLayoutTree ==
  /\ pc = "start"
  /\ containing_block' = [containing_block EXCEPT !.content.height = 0]
  /\ LET built == build_layout_tree(style_node, <<>>)
     IN IF built = Panicked
        THEN pc' = "panicked" /\ root_box' = None
        ELSE pc' = "built" /\ root_box' = Some(built)
  /\ UNCHANGED <<elem, selector, matched, stylesheet, values,
                 style_node, dimensions, stack>>

(***************************************************************************)
(* Specification SpecBuild: build_layout_tree on styled trees that differ  *)
(* in shape and in the display of their nodes                              *)
(***************************************************************************)

\* Most nodes of a styled tree of SpecBuild.
MaxBuildNodes == 5

\* The display a stylesheet can give a node: none declared, block, none.
DisplayStyles ==
  {<<>>, [name \in {"display"} |-> Keyword("block")],
   [name \in {"display"} |-> Keyword("none")]}

InitBuild ==
  /\ pc = "start"
  /\ \E n \in 1..MaxBuildNodes :
       \E parent \in TreeShapes(n), styles \in [1..n -> DisplayStyles] :
         style_node = StyledTree(parent, styles, 1)
  /\ containing_block = Viewport(Px(ViewportHeight))
  /\ root_box = None
  /\ stack = <<>>
  /\ dimensions = Idle
  /\ elem = Idle /\ selector = Idle /\ matched = Idle
  /\ stylesheet = Idle /\ values = Idle

NextBuild == BuildLayoutTree

SpecBuild == InitBuild /\ [][NextBuild]_vars

\* The paths of the boxes of a layout tree, and of the nodes of a styled tree.
RECURSIVE Paths(_)
Paths(tree) ==
  {<<>>} \cup UNION {{<<k>> \o q : q \in Paths(tree.children[k])} :
                      k \in DOMAIN tree.children}

IsPrefix(p, q) == Len(p) <= Len(q) /\ SubSeq(q, 1, Len(p)) = p

\* The styled nodes the boxes of the layout tree refer to.
ReferencedNodes(tree) ==
  {BoxAt(tree, q).node[1] : q \in {r \in Paths(tree) : BoxAt(tree, r).node # None}}

\* The child boxes a Block box is to have for the styled node at path, from
\* child k on, given the groups made so far: a Block child is a group of its
\* own, an Inline child joins the AnonymousBlock group before it or starts
\* one, a child of display none is left out.
RECURSIVE ExpectedGroups(_, _, _, _)
ExpectedGroups(node, path, k, groups) ==
  IF k > Len(node.children) THEN groups
  ELSE LET d == display(node.children[k])
           n == Len(groups)
       IN ExpectedGroups(node, path, k + 1,
            IF d = "Block"
              THEN Append(groups, [box_type |-> "BlockNode", nodes |-> <<Append(path, k)>>])
            ELSE IF d = "Inline"
              THEN IF n > 0 /\ groups[n].box_type = "AnonymousBlock"
                   THEN [groups EXCEPT ![n].nodes = Append(@, Append(path, k))]
                   ELSE Append(groups, [box_type |-> "AnonymousBlock",
                                        nodes |-> <<Append(path, k)>>])
            ELSE groups)

\* The child boxes a box has: the type of each, and the styled nodes it (or,
\* for an AnonymousBlock, its InlineNode children) refers to.
ActualGroups(box) ==
  [k \in DOMAIN box.children |->
     LET c == box.children[k]
     IN IF c.box_type = "AnonymousBlock"
        THEN [box_type |-> IF \A m \in DOMAIN c.children :
                                c.children[m].box_type = "InlineNode"
                           THEN "AnonymousBlock" ELSE "AnonymousBlock of other boxes",
              nodes |-> [m \in DOMAIN c.children |-> c.children[m].node[1]]]
        ELSE [box_type |-> c.box_type, nodes |-> <<c.node[1]>>]]

\* C3: in the layout tree, under the box of every Block node each maximal run of
\* consecutive Inline children is wrapped in one AnonymousBlock holding the
\* run's boxes in document order, Block children are direct children, and the
\* children are in document order; so no two AnonymousBlock boxes are adjacent
\* and no InlineNode box is a direct child of a BlockNode box.
InlineRunsWrapped ==
  pc = "built" =>
    \A q \in Paths(root_box[1]) :
      LET box == BoxAt(root_box[1], q)
      IN box.node # None /\ display(get_style_node(box)) = "Block" =>
           /\ box.box_type = "BlockNode"
           /\ ActualGroups(box) = ExpectedGroups(get_style_node(box), box.node[1], 1, <<>>)

\* C4: no box of the layout tree refers to a non-root styled node whose
\* display is none, or to a descendant of one.
DisplayNonePruned ==
  pc = "built" =>
    \A q \in Paths(style_node) :
      q # <<>> /\ display(NodeAt(style_node, q)) = "DisplayNone" =>
        \A r \in ReferencedNodes(root_box[1]) : ~IsPrefix(q, r)

\* C5: when the root styled node has display none, layout_tree panics and
\* returns no tree; when it is block or inline, a tree is built.
RootDisplayNoneAborts ==
  pc # "start" =>
    IF display(style_node) = "DisplayNone"
    THEN pc = "panicked" /\ root_box = None
    ELSE pc # "panicked" /\ root_box # None

(***************************************************************************)
(* Specification Spec: layout_tree, the layout pass one step of            *)
(* layout_block at a time                                                  *)
(*                                                                         *)
(* A frame of the stack is a call of layout_block in progress:             *)
(* [path, containing_block, step, child], path being the box laid out,     *)
(* step the statement it stands before and child the index of the child    *)
(* the loop of layout_block_children is at.                                *)
(***************************************************************************)

\* Most nodes of a styled tree of Spec.
MaxNodes == 3

\* What a stylesheet declares for node i: display block or nothing (inline);
\* a height and a width of its own, or none; margin, border-width and padding,
\* or none.
NodeStyle(i, block, sized, edged) ==
  LET names == (IF block THEN {"display"} ELSE {})
               \cup (IF sized THEN {"height", "width"} ELSE {})
               \cup (IF edged THEN {"margin", "border-width", "padding"} ELSE {})
  IN [name \in names |->
        CASE name = "display" -> Keyword("block")
          [] name = "height" -> Length(Px(100 * i))
          [] name = "width" -> Length(Px(300 + i))
          [] name = "margin" -> Length(Px(1))
          [] name = "border-width" -> Length(Px(2))
          [] name = "padding" -> Length(Px(4))]

Init ==
  /\ pc = "start"
  /\ \E n \in 1..MaxNodes :
       \E parent \in TreeShapes(n), flags \in [1..n -> [1..3 -> BOOLEAN]] :
         style_node =
           StyledTree(parent,
                      [i \in 1..n |-> NodeStyle(i, flags[i][1], flags[i][2], flags[i][3])],
                      1)
  /\ containing_block \in {Viewport(0), Viewport(Px(ViewportHeight))}
  /\ root_box = None
  /\ stack = <<>>
  /\ dimensions = Idle
  /\ elem = Idle /\ selector = Idle /\ matched = Idle
  /\ stylesheet = Idle /\ values = Idle

Top == stack[Len(stack)]
TopBox == BoxAt(root_box[1], Top.path)

\* LayoutBox::layout calling layout_block for a box of any type.
layout_every_box(path, containing) ==
  Append(stack, [path |-> path, containing_block |-> containing,
                 step |-> "width", child |-> 0])

\* LayoutBox::layout, called on the box at path: the stack after the call
\* has started. For a BlockNode it is layout_block; for the others it does
\* nothing.
layout(path, containing) ==
  IF BoxAt(root_box[1], path).box_type = "BlockNode"
  THEN Append(stack, [path |-> path, containing_block |-> containing,
                      step |-> "width", child |-> 0])
  ELSE stack

\* layout_tree: root_box.layout(containing_block); return root_box
LayoutRoot ==
  /\ pc = "built"
  /\ stack' = layout(<<>>, containing_block)
  /\ pc' = IF stack' = <<>> THEN "done" ELSE "layout"
  /\ UNCHANGED <<elem, selector, matched, stylesheet, values,
                 style_node, containing_block, dimensions, root_box>>

\* layout_block: self.calculate_block_width(containing_block)
LayoutBlockWidth ==
  /\ pc = "layout" /\ Top.step = "width"
  /\ root_box' = Some(WithDimensions(root_box[1], Top.path,
                    calculate_block_width(get_style_node(TopBox), Top.containing_block,
                                          TopBox.dimensions)))
  /\ stack' = [stack EXCEPT ![Len(stack)].step = "position"]
  /\ UNCHANGED <<pc, elem, selector, matched, stylesheet, values,
                 style_node, containing_block, dimensions>>

\* layout_block: self.calculate_block_position(containing_block)
LayoutBlockPosition ==
  /\ pc = "layout" /\ Top.step = "position"
  /\ root_box' = Some(WithDimensions(root_box[1], Top.path,
                    calculate_block_position(get_style_node(TopBox), Top.containing_block,
                                             TopBox.dimensions)))
  /\ stack' = [stack EXCEPT ![Len(stack)].step = "children", ![Len(stack)].child = 1]
  /\ UNCHANGED <<pc, elem, selector, matched, stylesheet, values,
                 style_node, containing_block, dimensions>>

\* layout_block_children, one turn of its loop up to the end of
\* child.layout(*d): a Block child starts its own layout_block; for any other
\* child layout returns at once and the child's margin box is added.
LayoutChild ==
  /\ pc = "layout" /\ Top.step = "children" /\ Top.child <= Len(TopBox.children)
  /\ LET called == layout(Append(Top.path, Top.child), TopBox.dimensions)
     IN IF called # stack
        THEN stack' = called /\ root_box' = root_box
        ELSE /\ root_box' = Some(WithDimensions(root_box[1], Top.path,
                               AddChildHeight(TopBox.dimensions,
                                              TopBox.children[Top.child])))
             /\ stack' = [stack EXCEPT ![Len(stack)].child = @ + 1]
  /\ UNCHANGED <<pc, elem, selector, matched, stylesheet, values,
                 style_node, containing_block, dimensions>>

\* layout_block with calculate_block_height called while children are still to
\* be laid out.
LayoutBlockHeightEarly ==
  /\ pc = "layout" /\ Top.step = "children"
  /\ root_box' = Some(WithDimensions(root_box[1], Top.path,
                    calculate_block_height(get_style_node(TopBox), TopBox.dimensions)))
  /\ stack' = [stack EXCEPT ![Len(stack)].step = "return"]
  /\ UNCHANGED <<pc, elem, selector, matched, stylesheet, values,
                 style_node, containing_block, dimensions>>

\* layout_block: self.calculate_block_height(), the loop over the children
\* being over
LayoutBlockHeight ==
  /\ pc = "layout" /\ Top.step = "children" /\ Top.child > Len(TopBox.children)
  /\ root_box' = Some(WithDimensions(root_box[1], Top.path,
                    calculate_block_height(get_style_node(TopBox), TopBox.dimensions)))
  /\ stack' = [stack EXCEPT ![Len(stack)].step = "return"]
  /\ UNCHANGED <<pc, elem, selector, matched, stylesheet, values,
                 style_node, containing_block, dimensions>>

\* layout_block returns: to layout_block_children of the parent, which adds
\* the child's margin box height and goes on to the next child, or, for the
\* root, to layout_tree, which returns root_box.
LayoutReturn ==
  /\ pc = "layout" /\ Top.step = "return"
  /\ IF Len(stack) = 1
     THEN /\ stack' = <<>>
          /\ pc' = "done"
          /\ root_box' = root_box
     ELSE LET caller == stack[Len(stack) - 1]
              parent == BoxAt(root_box[1], caller.path)
          IN /\ root_box' = Some(WithDimensions(root_box[1], caller.path,
                                  AddChildHeight(parent.dimensions, TopBox)))
             /\ stack' = [SubSeq(stack, 1, Len(stack) - 1)
                            EXCEPT ![Len(stack) - 1].child = @ + 1]
             /\ pc' = pc
  /\ UNCHANGED <<elem, selector, matched, stylesheet, values,
                 style_node, containing_block, dimensions>>

Next ==
  \/ BuildLayoutTree
  \/ LayoutRoot
  \/ LayoutBlockWidth
  \/ LayoutBlockPosition
  \/ LayoutChild
  \/ LayoutBlockHeight
  \/ LayoutReturn

Spec == Init /\ [][Next]_vars

\* The box at path q has been laid out by layout_block: it is a BlockNode and
\* so is every box above it.
LaidOut(q) ==
  \A n \in 0..Len(q) : BoxAt(root_box[1], SubSeq(q, 1, n)).box_type = "BlockNode"

\* The sum of the margin-box heights of child boxes.
RECURSIVE MarginBoxHeights(_)
MarginBoxHeights(boxes) ==
  IF boxes = <<>> THEN 0
  ELSE margin_box(Head(boxes).dimensions).height + MarginBoxHeights(Tail(boxes))

DeclaresHeight(style) ==
  value(style, "height") # None /\ value(style, "height")[1].kind = "Length"

\* C7: after layout, the content height of a Block box is the height its
\* styled node declares as a pixel length, if it declares one, whatever its
\* children; otherwise it is the sum of the margin-box heights of its direct
\* child boxes.
BlockHeight ==
  pc = "done" =>
    \A q \in Paths(root_box[1]) :
      LaidOut(q) =>
        LET box == BoxAt(root_box[1], q)
        IN box.dimensions.content.height =
             IF DeclaresHeight(get_style_node(box))
             THEN value(get_style_node(box), "height")[1].f
             ELSE MarginBoxHeights(box.children)

\* Witness of C7: a laid out box without a declared height whose child
\* declares a height other than the margin-box height of its own child.
BlockHeightWitness ==
  /\ pc = "done"
  /\ <<1, 1>> \in Paths(root_box[1])
  /\ LaidOut(<<1, 1>>)
  /\ ~DeclaresHeight(get_style_node(BoxAt(root_box[1], <<>>)))
  /\ DeclaresHeight(get_style_node(BoxAt(root_box[1], <<1>>)))
  /\ MarginBoxHeights(BoxAt(root_box[1], <<1>>).children) > 0
  /\ BoxAt(root_box[1], <<1>>).dimensions.content.height
       # MarginBoxHeights(BoxAt(root_box[1], <<1>>).children)
  /\ BoxAt(root_box[1], <<>>).dimensions.content.height
       = margin_box(BoxAt(root_box[1], <<1>>).dimensions).height

\* The path of the parent of the box at a path other than the root's.
ParentPath(q) == SubSeq(q, 1, Len(q) - 1)

\* The earlier siblings of the box at path q, in document order.
EarlierSiblings(q) ==
  SubSeq(BoxAt(root_box[1], ParentPath(q)).children, 1, q[Len(q)] - 1)

\* C11: after layout_tree the margin box of every Block box that is a child
\* of a Block box starts at the parent's content.y plus the margin-box
\* heights of its earlier siblings, and its content.x is the parent's
\* content.x plus its own left margin, border and padding; the root is laid
\* out against a containing height of 0, whatever height the caller passed.
BlockStacking ==
  /\ pc # "start" => containing_block.content.height = 0
  /\ stack # <<>> => stack[1].containing_block.content.height = 0
  /\ pc = "done" /\ root_box[1].box_type = "BlockNode" =>
       margin_box(root_box[1].dimensions).y = containing_block.content.y
  /\ pc = "done" =>
       \A q \in Paths(root_box[1]) \ {<<>>} :
         LaidOut(q) =>
           LET B == BoxAt(root_box[1], q).dimensions
               P == BoxAt(root_box[1], ParentPath(q)).dimensions
           IN /\ B.content.y - B.padding.top - B.border.top - B.margin.top
                   = P.content.y + MarginBoxHeights(EarlierSiblings(q))
              /\ B.content.x
                   = P.content.x + B.margin.left + B.border.left + B.padding.left

\* Witness of C11: a laid out tree whose root has a second child, below a
\* first child with a margin box of some height and with edges of its own.
BlockStackingWitness ==
  /\ pc = "done"
  /\ <<2>> \in Paths(root_box[1])
  /\ LaidOut(<<2>>)
  /\ margin_box(BoxAt(root_box[1], <<1>>).dimensions).height > 0
  /\ BoxAt(root_box[1], <<2>>).dimensions.margin.top > 0
  /\ BoxAt(root_box[1], <<2>>).dimensions.content.y
       > BoxAt(root_box[1], <<1>>).dimensions.content.y
  /\ BoxAt(root_box[1], <<>>).dimensions.content.y > 0

\* The steps of layout_block in the order of its statements; "return" is
\* the position after the height step.
StepOrder == <<"width", "position", "children", "return">>
StepIndex(step) == CHOOSE i \in DOMAIN StepOrder : StepOrder[i] = step

\* The box of a call of layout_block holds what calculate_block_width and
\* calculate_block_position write for its containing block, whatever content
\* height it has accumulated since.
WidthAndPositionWritten(frame) ==
  LET box == BoxAt(root_box[1], frame.path)
      style == get_style_node(box)
      written == calculate_block_position(style, frame.containing_block,
                   calculate_block_width(style, frame.containing_block,
                                         DefaultDimensions))
  IN [box.dimensions EXCEPT !.content.height = 0] = written

\* Nothing has been written to a box or to a box below it.
RECURSIVE UntouchedTree(_)
UntouchedTree(box) ==
  /\ box.dimensions = DefaultDimensions
  /\ \A k \in DOMAIN box.children : UntouchedTree(box.children[k])

\* The layout of a box is complete: a Block box has been written to, its
\* height is resolved, and the layout of each of its children is complete.
\* For the other boxes layout does nothing.
RECURSIVE Completed(_)
Completed(box) ==
  box.box_type = "BlockNode" =>
    /\ box.dimensions # DefaultDimensions
    /\ box.dimensions.content.height =
         IF DeclaresHeight(get_style_node(box))
         THEN value(get_style_node(box), "height")[1].f
         ELSE MarginBoxHeights(box.children)
    /\ \A k \in DOMAIN box.children : Completed(box.children[k])

\* A step starts the layout of a box, resolves the height of the box being
\* laid out, or returns from its layout.
StartsLayout == Len(stack') > Len(stack)
ResolvesHeight ==
  /\ stack # <<>> /\ Len(stack') = Len(stack)
  /\ Top.step = "children" /\ stack'[Len(stack')].step = "return"
ReturnsFromLayout == Len(stack') < Len(stack)

\* C12: every Block box goes through width, position, children, height in
\* that order; the layout of a child starts only when its parent's width and
\* position are written, children are laid out one after another in document
\* order, and a box resolves its height, and has it read by its parent, only
\* when the layout of each of its children, descendants included, is complete.
LayoutOrder ==
  [][/\ \A i \in 1..Len(stack) :
          i <= Len(stack') =>
            /\ stack'[i].path = stack[i].path
            /\ StepIndex(stack'[i].step) - StepIndex(stack[i].step) \in {0, 1}
     /\ StartsLayout =>
          LET started == stack'[Len(stack')]
          IN /\ Len(stack') = Len(stack) + 1
             /\ started.step = "width"
             /\ UntouchedTree(BoxAt(root_box[1], started.path))
             /\ stack # <<>> =>
                  /\ Top.step = "children"
                  /\ WidthAndPositionWritten(Top)
                  /\ started.path = Append(Top.path, Top.child)
                  /\ started.containing_block = TopBox.dimensions
                  /\ \A j \in 1..(Top.child - 1) : Completed(TopBox.children[j])
                  /\ \A j \in Top.child..Len(TopBox.children) :
                       UntouchedTree(TopBox.children[j])
     /\ ResolvesHeight =>
          /\ WidthAndPositionWritten(Top)
          /\ \A j \in DOMAIN TopBox.children : Completed(TopBox.children[j])
     /\ ReturnsFromLayout =>
          /\ Len(stack') = Len(stack) - 1
          /\ Top.step = "return"
          /\ Completed(TopBox)
    ]_vars

\* Witness of C12: the layout of the root's second child starts, the root's
\* width and position being written and the layout of the first child, which
\* has a margin box of some height, being complete.
LayoutOrderWitness ==
  /\ pc = "layout"
  /\ Len(stack) = 2
  /\ Top.path = <<2>> /\ Top.step = "width"
  /\ WidthAndPositionWritten(stack[1])
  /\ Completed(BoxAt(root_box[1], <<1>>))
  /\ margin_box(BoxAt(root_box[1], <<1>>).dimensions).height > 0
  /\ UntouchedTree(BoxAt(root_box[1], <<2>>))

(***************************************************************************)
(* Specification SpecLayout: LayoutBox::layout on layout trees of every    *)
(* shape whose boxes are BlockNode, InlineNode or AnonymousBlock boxes.    *)
(* build_layout_tree as written yields BlockNode boxes only, so the trees  *)
(* are drawn as arguments of layout, not built from styled trees.          *)
(***************************************************************************)

\* Most boxes of a layout tree of SpecLayout.
MaxLayoutNodes == 4

BoxTypes == {"BlockNode", "InlineNode", "AnonymousBlock"}

\* LayoutBox { box_type, dimensions, children } as LayoutBox::new leaves it,
\* for node i of a tree: a BlockNode or InlineNode box refers to the styled
\* node at the same path, an AnonymousBlock to none.
RECURSIVE LayoutTree(_, _, _, _)
LayoutTree(parent, types, i, path) ==
  LET kids == ChildrenOf(parent, i)
  IN [box_type |-> types[i],
      node |-> IF types[i] = "AnonymousBlock" THEN None ELSE Some(path),
      dimensions |-> DefaultDimensions,
      children |-> [k \in DOMAIN kids |->
                      LayoutTree(parent, types, kids[k], Append(path, k))]]

\* Every styled node declares margin, border-width and padding; the root, and
\* the other nodes, declare a height and a width or none.
InitLayout ==
  /\ pc = "built"
  /\ \E n \in 1..MaxLayoutNodes :
       \E parent \in TreeShapes(n), types \in [1..n -> BoxTypes],
          sized \in [{"root", "others"} -> BOOLEAN] :
         /\ style_node =
              StyledTree(parent,
                         [i \in 1..n |->
                            NodeStyle(i, types[i] = "BlockNode",
                                      IF i = 1 THEN sized["root"] ELSE sized["others"],
                                      TRUE)],
                         1)
         /\ root_box = Some(LayoutTree(parent, types, 1, <<>>))
  /\ containing_block = Viewport(0)
  /\ stack = <<>>
  /\ dimensions = Idle
  /\ elem = Idle /\ selector = Idle /\ matched = Idle
  /\ stylesheet = Idle /\ values = Idle

NextLayout ==
  \/ LayoutRoot
  \/ LayoutBlockWidth
  \/ LayoutBlockPosition
  \/ LayoutChild
  \/ LayoutBlockHeight
  \/ LayoutReturn

SpecLayout == InitLayout /\ [][NextLayout]_vars

IsBlockNode(box) == box.box_type = "BlockNode"

\* C13: layout leaves every InlineNode and AnonymousBlock box as it was: its
\* dimensions and those of every box below it, Block boxes included, stay 0;
\* layout_block is never called for such a box, so that get_style_node is
\* never called on an AnonymousBlock and nothing panics; and such boxes add
\* nothing to the content height their parent accumulates.
InlineBoxesUntouched ==
  /\ pc # "panicked"
  /\ \A i \in DOMAIN stack :
       /\ IsBlockNode(BoxAt(root_box[1], stack[i].path))
       /\ BoxAt(root_box[1], stack[i].path).node # None
  /\ \A q \in Paths(root_box[1]) :
       ~IsBlockNode(BoxAt(root_box[1], q)) => UntouchedTree(BoxAt(root_box[1], q))
  /\ pc = "done" =>
       \A q \in Paths(root_box[1]) :
         LaidOut(q) /\ ~DeclaresHeight(get_style_node(BoxAt(root_box[1], q))) =>
           BoxAt(root_box[1], q).dimensions.content.height
             = MarginBoxHeights(SelectSeq(BoxAt(root_box[1], q).children, IsBlockNode))

\* Witness of C13: a laid out Block root without a height of its own, over
\* an InlineNode child with a Block box below it and an AnonymousBlock child.
InlineBoxesUntouchedWitness ==
  /\ pc = "done"
  /\ <<1, 1>> \in Paths(root_box[1]) /\ <<2>> \in Paths(root_box[1])
  /\ IsBlockNode(root_box[1])
  /\ ~DeclaresHeight(get_style_node(root_box[1]))
  /\ root_box[1].dimensions.content.width > 0
  /\ BoxAt(root_box[1], <<1>>).box_type = "InlineNode"
  /\ BoxAt(root_box[1], <<1, 1>>).box_type = "BlockNode"
  /\ BoxAt(root_box[1], <<2>>).box_type = "AnonymousBlock"
  /\ UntouchedTree(BoxAt(root_box[1], <<1>>))
  /\ UntouchedTree(BoxAt(root_box[1], <<2>>))
  /\ root_box[1].dimensions.content.height = 0

=============================================================================
